---- MODULE Spec2Model ----
(***************************************************************************)
(* OpensslAsyncTask (lib/openssl-async-job/src/task.rs): the future that   *)
(* drives one OpenSSL ASYNC job holding a SyncOperation, and its consumer  *)
(* KeylessOpensslAsyncJob (g3bench).                                       *)
(*                                                                         *)
(* One poll of the future is modelled step by step (the native call, the   *)
(* match on its status, the fd reconciliation, the readiness check), since *)
(* poll_run contains a loop and the order of its calls matters.            *)
(***************************************************************************)
EXTENDS Integers, FiniteSets, Sequences, TLC

\* ---------------------------------------------------------------- bounds
MaxPolls == 4        \* polls of the future the executor makes
MaxPauses == 3       \* pauses the native job makes
MaxInputLen == 2     \* length of the operation's input
MaxJobs == 2         \* job handles the native scheduler hands out
MaxSaltLen == 17     \* Sha256Crypt::parse: salts of 0..MaxSaltLen bytes
HashSlack == 1       \* hashes of HASH_STR_LEN - HashSlack .. + HashSlack bytes

\* ------------------------------------------------------------- constants
NULL == 0                       \* ptr::null_mut()

Fds == {3, 5, 7}                \* file descriptors the job can wait on
OpErrors == {"e1", "e2"}        \* errors the operation's run() can return
Inputs == 1..MaxInputLen        \* input lengths of the operation

\* the status codes of ASYNC_start_job, and one that is none of them
ASYNC_ERR == "ASYNC_ERR"
ASYNC_NO_JOBS == "ASYNC_NO_JOBS"
ASYNC_PAUSE == "ASYNC_PAUSE"
ASYNC_FINISH == "ASYNC_FINISH"
ASYNC_OTHER == "ASYNC_OTHER"

VARIABLES
    pc,          \* where the task is: "out" (not being polled), "call", "match",
                 \* "ready" (inside poll_run), "done" (future resolved), "panicked",
                 \* "aborted" (the process crashed), "recovered", "dropped"
    job,         \* self.job: NULL or the handle of the paused native job
    op_error,    \* self.op_error: "Ok" or an error of OpErrors
    opInput,     \* the operation: the length of its input
    opRun,       \* the operation: what its run() returns, "Ok" or an error
    opResult,    \* the operation: its result field (0 until run() fills it)
    tracked,     \* the operation: the fds it has tracked
    r,           \* poll_run's local r: the status of this poll's native call
    fresh,       \* r has not been examined by the match yet
    ret,         \* what the last poll returned: "None", "Pending" or "Ready"
    res,         \* the value the future resolved to: <<variant, payload>>
    woken,       \* the task's waker has been woken since the last poll began
    jobState,    \* the native job: "none", "paused", "finished", "failed"
    nextJob,     \* the next job handle the scheduler hands out
    lastCall,    \* the last native call: <<"start" or "resume", handle passed>>
    waitFds,     \* the wait context: the fds the paused job waits on
    chgAdd,      \* the wait context: fds added since the diff was last read
    chgDel,      \* the wait context: fds removed since the diff was last read
    pauseAdd,    \* the fds the job added to the wait context at its latest pause
    pauseDel,    \* the fds the job removed from it at its latest pause
    callAdd,     \* fds passed to track_raw_fd since the latest pause
    callDel,     \* fds passed to untrack_raw_fd since the latest pause
    polls,       \* number of polls begun
    noSlots,     \* number of native calls that returned ASYNC_NO_JOBS
    pauses,      \* number of pauses of the native job
    nRun,        \* number of calls of run()
    nTrack,      \* number of calls of track_raw_fd
    nUntrack,    \* number of calls of untrack_raw_fd
    lastReady,   \* what poll_ready_fds returned when last called, "-" before
    readyCalls,  \* poll_ready_fds calls since the latest pause (0, 1, 2 = more)
    diffReads,   \* get_changed_fds calls since the latest pause (0, 1, 2 = more)
    recovered,   \* the result field of the operation into_op() returned, -1 before
    nWrites,     \* number of stores into self.op_error by the trampoline
    nTakes,      \* number of times self.op_error was taken (mem::replace)
    ranOn,       \* what the trampoline used as the task: "-" before, "task", "copy"
    addr,        \* the address the task is at
    startAddr,   \* the address the task was at when its job was started, 0 before
    jobRet,      \* what the trampoline returned: <<>> before, <<status>> after
    parseArg,    \* Sha256Crypt::parse: its argument v, a string as its bytes
    parseRet     \* Sha256Crypt::parse: what it returned, NotParsed before

vars == <<pc, job, op_error, opInput, opRun, opResult, tracked, r, fresh, ret, res,
          woken, jobState, nextJob, lastCall, waitFds, chgAdd, chgDel, pauseAdd,
          pauseDel, callAdd, callDel, polls, noSlots, pauses, nRun, nTrack, nUntrack,
          lastReady, readyCalls, diffReads, recovered, nWrites, nTakes, ranOn, addr,
          startAddr, jobRet, parseArg, parseRet>>

parseVars == <<parseArg, parseRet>>
taskVars == <<job, op_error>>
opVars == <<opInput, opRun, opResult, tracked>>
schedVars == <<jobState, nextJob, lastCall, waitFds, chgAdd, chgDel, pauses, noSlots>>
pauseVars == <<pauseAdd, pauseDel, callAdd, callDel, readyCalls, diffReads>>
countVars == <<nRun, nTrack, nUntrack, lastReady>>
slotVars == <<nWrites, nTakes>>
ptrVars == <<ranOn, addr, startAddr, jobRet>>

Addrs == {1, 2}                 \* addresses the task can be at

NoRes == <<"-", "-">>

\* the result of a parse: Ok(Sha256Crypt { rounds, salt, hash }) or Err(err)
ParseOk(rounds, salt, hash) ==
    [tag |-> "Ok", err |-> "-", rounds |-> rounds, salt |-> salt, hash |-> hash]
ParseErr(e) ==
    [tag |-> "Err", err |-> e, rounds |-> 0, salt |-> <<>>, hash |-> <<>>]
NotParsed == [tag |-> "-", err |-> "-", rounds |-> 0, salt |-> <<>>, hash |-> <<>>]

\* OpensslAsyncTask::new: no job, the error slot holds success.  The operation
\* is whatever the caller built: any input, any outcome of run().
TaskInit ==
    /\ pc = "out"
    /\ job = NULL
    /\ op_error = "Ok"
    /\ opInput \in Inputs
    /\ opRun \in {"Ok"} \cup OpErrors
    /\ opResult = 0
    /\ tracked = {}
    /\ r = "-"
    /\ fresh = FALSE
    /\ ret = "None"
    /\ res = NoRes
    /\ woken = FALSE
    /\ jobState = "none"
    /\ nextJob = 1
    /\ lastCall = <<"-", NULL>>
    /\ waitFds = {}
    /\ chgAdd = {}
    /\ chgDel = {}
    /\ pauseAdd = {}
    /\ pauseDel = {}
    /\ callAdd = {}
    /\ callDel = {}
    /\ polls = 0
    /\ noSlots = 0
    /\ pauses = 0
    /\ nRun = 0
    /\ nTrack = 0
    /\ nUntrack = 0
    /\ lastReady = "-"
    /\ readyCalls = 0
    /\ diffReads = 0
    /\ recovered = -1
    /\ nWrites = 0
    /\ nTakes = 0
    /\ ranOn = "-"
    /\ addr = 1
    /\ startAddr = 0
    /\ jobRet = <<>>

\* the task's program parses nothing
Init ==
    /\ TaskInit
    /\ parseArg = <<>>
    /\ parseRet = NotParsed

\* Future::poll: the executor polls a future that has not resolved.
Poll ==
    /\ pc = "out"
    /\ polls < MaxPolls
    /\ pc' = "call"
    /\ polls' = polls + 1
    /\ ret' = "None"
    /\ woken' = FALSE
    /\ UNCHANGED <<parseVars, slotVars, ptrVars, taskVars, opVars, r, fresh, res, schedVars, pauseVars, countVars,
                   recovered>>

\* ------------------------------------------------- the native scheduler call
\* What start_job's argument resolves to.  poll_run passes args = self (the
\* task's address) with size = size_of::<*mut Self>(); ASYNC_start_job copies
\* `size` bytes from args into the job's own buffer and calls the trampoline on
\* that buffer, which start_job casts to *mut OpensslAsyncTask<T>.  So the
\* trampoline's task is a copy of the first pointer-sized bytes of the task,
\* not the task ("task" is what a pointer to the polled task would be).
TrampolineTask == "copy"

\* Using a few bytes of a copy as a whole task reads and writes outside the
\* buffer: undefined behaviour.  The build can crash ("abort") or run the
\* operation on and store into memory that is not the polled task ("stray").
TrampolineOutcomes ==
    IF TrampolineTask = "task" THEN {"task"} ELSE {"stray", "abort"}

\* SyncOperation::run of the keyless job: result = handle_action()?, here the
\* length of the input; on an error the result field is left as it was.
run(result, input, outcome) == IF outcome = "Ok" THEN input ELSE result

\* start_job: task.op_error = task.operation.run(), on whatever `task` is.
\* The polled task's <<op_error, result>> afterwards.
start_job(outcome) ==
    IF outcome = "task"
    THEN <<opRun, run(opResult, opInput, opRun)>>
    ELSE <<op_error, opResult>>

CallKind == IF job = NULL THEN "start" ELSE "resume"

\* the wait context after the job changed the fds it waits on from waitFds to W
PausedOn(W) ==
    LET a == W \ waitFds
        d == waitFds \ W
    IN /\ waitFds' = W
       /\ pauseAdd' = a
       /\ pauseDel' = d
       /\ chgAdd' = (chgAdd \ d) \cup (a \ chgDel)
       /\ chgDel' = (chgDel \ a) \cup (d \ chgAdd)

\* the number of stores start_job makes into the polled task's op_error
SlotWrites(outcome) == IF outcome = "task" THEN 1 ELSE 0

\* the trampoline's status derived from what run() returned
start_job_ret_FromRun(e) == IF e = "Ok" THEN 0 ELSE 1

\* start_job's return value, e being what run() returned: the literal 0
start_job_ret(e) == 0

\* what run() returned inside the trampoline: the operation's outcome when the
\* trampoline has the task, anything when it works on stray memory
RunReturns(outcome) ==
    IF outcome = "task" THEN {opRun} ELSE {"Ok"} \cup OpErrors

\* ASYNC_start_job with a null job starts one: the trampoline is entered with
\* the copied argument, and the task is at addr when it is
JobStarted ==
    /\ ranOn' = IF job = NULL THEN TrampolineTask ELSE ranOn
    /\ startAddr' = IF job = NULL THEN addr ELSE startAddr
    /\ addr' = addr

\* ASYNC_start_job fails: the scheduler releases the job and nulls the handle.
StartJobErr ==
    /\ pc = "call"
    /\ lastCall' = <<CallKind, job>>
    /\ r' = ASYNC_ERR
    /\ fresh' = TRUE
    /\ job' = NULL
    /\ jobState' = IF job = NULL THEN jobState ELSE "failed"
    /\ pc' = "match"
    /\ UNCHANGED <<parseVars, slotVars, ptrVars, op_error, opVars, ret, res, woken, nextJob, waitFds, chgAdd, chgDel,
                   pauses, noSlots, pauseVars, countVars, polls, recovered>>

\* ASYNC_start_job finds no free job for a task that has none yet.
StartJobNoJobs ==
    /\ pc = "call"
    /\ job = NULL
    /\ lastCall' = <<CallKind, job>>
    /\ r' = ASYNC_NO_JOBS
    /\ fresh' = TRUE
    /\ noSlots' = noSlots + 1
    /\ pc' = "match"
    /\ UNCHANGED <<parseVars, slotVars, ptrVars, taskVars, opVars, ret, res, woken, jobState, nextJob, waitFds, chgAdd,
                   chgDel, pauses, pauseVars, countVars, polls, recovered>>

\* ASYNC_start_job starts the job (the trampoline calls run()) or resumes the
\* paused one, and the job pauses waiting on the fds W.
StartJobPause ==
    /\ pc = "call"
    /\ pauses < MaxPauses
    /\ job = NULL => nextJob <= MaxJobs
    /\ \E W \in SUBSET Fds : PausedOn(W)
    /\ lastCall' = <<CallKind, job>>
    /\ r' = ASYNC_PAUSE
    /\ fresh' = TRUE
    /\ job' = IF job = NULL THEN nextJob ELSE job
    /\ nextJob' = IF job = NULL THEN nextJob + 1 ELSE nextJob
    /\ nRun' = IF job = NULL THEN nRun + 1 ELSE nRun
    /\ jobState' = "paused"
    /\ pauses' = pauses + 1
    /\ jobRet' = jobRet
    /\ callAdd' = {}
    /\ callDel' = {}
    /\ readyCalls' = 0
    /\ diffReads' = 0
    /\ JobStarted
    /\ pc' = "match"
    /\ UNCHANGED <<parseVars, slotVars, op_error, opVars, ret, res, woken, noSlots, nTrack, nUntrack,
                   lastReady, polls, recovered>>

\* ASYNC_start_job starts or resumes the job and run() returns: the trampoline
\* stores its result, the scheduler releases the job and nulls the handle.
StartJobFinish ==
    /\ pc = "call"
    /\ job = NULL => nextJob <= MaxJobs
    /\ \E o \in TrampolineOutcomes \ {"abort"} :
          /\ op_error' = start_job(o)[1]
          /\ opResult' = start_job(o)[2]
          /\ nWrites' = nWrites + SlotWrites(o)
          /\ \E e \in RunReturns(o) : jobRet' = <<start_job_ret(e)>>
    /\ nTakes' = nTakes
    /\ JobStarted
    /\ lastCall' = <<CallKind, job>>
    /\ r' = ASYNC_FINISH
    /\ fresh' = TRUE
    /\ job' = NULL
    /\ nextJob' = IF job = NULL THEN nextJob + 1 ELSE nextJob
    /\ nRun' = IF job = NULL THEN nRun + 1 ELSE nRun
    /\ jobState' = "finished"
    /\ pc' = "match"
    /\ UNCHANGED <<parseVars, opInput, opRun, tracked, ret, res, woken, waitFds, chgAdd, chgDel,
                   pauses, noSlots, pauseVars, nTrack, nUntrack, lastReady, polls,
                   recovered>>

\* The trampoline runs (at the start of the job or when it resumes) and the
\* undefined behaviour of using the copy as a task crashes the process.
StartJobAbort ==
    /\ pc = "call"
    /\ "abort" \in TrampolineOutcomes
    /\ job = NULL => nextJob <= MaxJobs
    /\ lastCall' = <<CallKind, job>>
    /\ nRun' = IF job = NULL THEN nRun + 1 ELSE nRun
    /\ JobStarted
    /\ jobRet' = jobRet
    /\ pc' = "aborted"
    /\ UNCHANGED <<parseVars, slotVars, taskVars, opVars, r, fresh, ret, res, woken, jobState, nextJob,
                   waitFds, chgAdd, chgDel, pauses, noSlots, pauseVars, nTrack,
                   nUntrack, lastReady, polls, recovered>>

\* ASYNC_start_job returns a status that is none of the four.
StartJobOther ==
    /\ pc = "call"
    /\ lastCall' = <<CallKind, job>>
    /\ r' = ASYNC_OTHER
    /\ fresh' = TRUE
    /\ pc' = "match"
    /\ UNCHANGED <<parseVars, slotVars, ptrVars, taskVars, opVars, ret, res, woken, jobState, nextJob, waitFds, chgAdd,
                   chgDel, pauses, noSlots, pauseVars, countVars, polls, recovered>>

ASYNC_start_job ==
    \/ StartJobErr
    \/ StartJobNoJobs
    \/ StartJobPause
    \/ StartJobFinish
    \/ StartJobAbort
    \/ StartJobOther

\* --------------------------------------------------- poll_run: the match on r
\* The future resolves: poll returns Ready(v).
Resolve(v) ==
    /\ pc' = "done"
    /\ ret' = "Ready"
    /\ res' = v

\* the scheduler's fault reported as the operation's failure
MatchErrResult_Operation == <<"Operation", "e1">>

\* ffi::ASYNC_ERR => return Poll::Ready(Err(ErrorStack::get().into()))
MatchErrResult == <<"Openssl", "sched">>

\* the fault taken for backpressure: Pending, and the next poll calls again
MatchErrNext_Retry == "out"

\* where the ASYNC_ERR arm leaves poll_run: it returns Ready from it
MatchErrNext == "done"

MatchErr ==
    /\ pc = "match"
    /\ r = ASYNC_ERR
    /\ fresh' = FALSE
    /\ IF MatchErrNext = "done"
       THEN Resolve(MatchErrResult)
       ELSE pc' = MatchErrNext /\ ret' = "Pending" /\ res' = res
    /\ UNCHANGED <<parseVars, slotVars, ptrVars, taskVars, opVars, r, woken, schedVars, pauseVars, countVars, polls,
                   recovered>>

\* exhaustion surfaced as the future's result
MatchNoJobsRet_Ready == "Ready"

\* ffi::ASYNC_NO_JOBS => wake_by_ref(); return Poll::Pending.  What poll returns.
MatchNoJobsRet == "Pending"

\* the wake left out: Pending with nothing to poll the task again
MatchNoJobsWake_None == FALSE

\* cx.waker().wake_by_ref() of the ASYNC_NO_JOBS arm
MatchNoJobsWake == TRUE

MatchNoJobs ==
    /\ pc = "match"
    /\ r = ASYNC_NO_JOBS
    /\ fresh' = FALSE
    /\ woken' = (woken \/ MatchNoJobsWake)
    /\ IF MatchNoJobsRet = "Pending"
       THEN pc' = "out" /\ ret' = "Pending" /\ res' = res
       ELSE Resolve(<<"Openssl", "nojobs">>)
    /\ UNCHANGED <<parseVars, slotVars, ptrVars, taskVars, opVars, r, schedVars, pauseVars, countVars, polls,
                   recovered>>

\* AsyncWaitCtx::get_changed_fds: the fds added and removed since the previous
\* call; the wait context's diff is empty afterwards.
get_changed_fds == <<chgAdd, chgDel>>

\* AsyncOperation::track_raw_fd and untrack_raw_fd on the set of tracked fds
track_raw_fd(t, fd) == t \cup {fd}
untrack_raw_fd(t, fd) == t \ {fd}

\* the tracked fds after track_raw_fd of every fd of a set
RECURSIVE TrackAll(_, _)
TrackAll(t, fds) ==
    IF fds = {} THEN t
    ELSE LET fd == CHOOSE x \in fds : TRUE
         IN TrackAll(track_raw_fd(t, fd), fds \ {fd})

\* the tracked fds after untrack_raw_fd of every fd of a set
RECURSIVE UntrackAll(_, _)
UntrackAll(t, fds) ==
    IF fds = {} THEN t
    ELSE LET fd == CHOOSE x \in fds : TRUE
         IN UntrackAll(untrack_raw_fd(t, fd), fds \ {fd})

\* the fds tracked at earlier pauses carried over into this pause's track calls
TrackArgs_CarryOver(add, del) == add \cup tracked

\* for fd in add { track_raw_fd(fd)? }: the fds the loop passes to track_raw_fd
\* when no call fails
TrackArgs(add, del) == add

\* the second loop left out: nothing is untracked
UntrackArgs_None(add, del) == {}

\* for fd in del { untrack_raw_fd(fd) }: the fds the loop passes to untrack_raw_fd
UntrackArgs(add, del) == del

\* the `?` of get_changed_fds()?: ErrorStack converts into the Openssl variant
DiffErrResult == <<"Openssl", "waitctx">>

\* the `?` of track_raw_fd(fd)?: io::Error converts into the Runtime variant
TrackErrResult == <<"Runtime", "track">>

\* where a failed track_raw_fd leaves poll_run: the `?` returns from it
TrackErrNext == "done"

\* No-slot handled by the pause arm as well
PauseArm_AlsoNoJobs(s) == s \in {ASYNC_PAUSE, ASYNC_NO_JOBS}

\* the pattern of the pause arm of `match r`
PauseArm(s) == s = ASYNC_PAUSE

\* ffi::ASYNC_PAUSE, get_changed_fds fails
MatchPauseDiffErr ==
    /\ pc = "match"
    /\ PauseArm(r)
    /\ fresh' = FALSE
    /\ diffReads' = IF diffReads < 2 THEN diffReads + 1 ELSE diffReads
    /\ Resolve(DiffErrResult)
    /\ UNCHANGED <<parseVars, slotVars, ptrVars, taskVars, opVars, r, woken, schedVars, pauseAdd, pauseDel, callAdd,
                   callDel, readyCalls, countVars, polls, recovered>>

\* ffi::ASYNC_PAUSE, track_raw_fd fails for the fd f after the fds S were tracked
MatchPauseTrackErr ==
    /\ pc = "match"
    /\ PauseArm(r)
    /\ fresh' = FALSE
    /\ LET d == get_changed_fds
       IN \E f \in TrackArgs(d[1], d[2]) : \E S \in SUBSET (TrackArgs(d[1], d[2]) \ {f}) :
                /\ callAdd' = callAdd \cup S \cup {f}
                /\ tracked' = TrackAll(tracked, S)
                /\ nTrack' = nTrack + Cardinality(S) + 1
    /\ chgAdd' = {}
    /\ chgDel' = {}
    /\ diffReads' = IF diffReads < 2 THEN diffReads + 1 ELSE diffReads
    /\ IF TrackErrNext = "done"
       THEN Resolve(TrackErrResult)
       ELSE pc' = TrackErrNext /\ ret' = ret /\ res' = res
    /\ UNCHANGED <<parseVars, slotVars, ptrVars, taskVars, opInput, opRun, opResult, r, woken, jobState, nextJob,
                   lastCall, waitFds, pauses, noSlots, pauseAdd, pauseDel, callDel,
                   readyCalls, nRun, nUntrack, lastReady, polls, recovered>>

\* ffi::ASYNC_PAUSE, the diff is read and applied; poll_ready_fds comes next
MatchPause ==
    /\ pc = "match"
    /\ PauseArm(r)
    /\ fresh' = FALSE
    /\ LET d == get_changed_fds
           a == TrackArgs(d[1], d[2])
           u == UntrackArgs(d[1], d[2])
       IN /\ callAdd' = callAdd \cup a
          /\ callDel' = callDel \cup u
          /\ tracked' = UntrackAll(TrackAll(tracked, a), u)
          /\ nTrack' = nTrack + Cardinality(a)
          /\ nUntrack' = nUntrack + Cardinality(u)
    /\ chgAdd' = {}
    /\ chgDel' = {}
    /\ diffReads' = IF diffReads < 2 THEN diffReads + 1 ELSE diffReads
    /\ pc' = "ready"
    /\ UNCHANGED <<parseVars, slotVars, ptrVars, taskVars, opInput, opRun, opResult, r, ret, res, woken, jobState,
                   nextJob, lastCall, waitFds, pauses, noSlots, pauseAdd, pauseDel,
                   readyCalls, nRun, lastReady, polls, recovered>>

\* ready!() left out: Pending resolves the future like an error
PollReadyNext_PendingResolves(p) ==
    CASE p = "Pending" -> "done"
      [] p = "ReadyErr" -> "done"
      [] p = "ReadyOk" -> "match"

\* where poll_run goes after poll_ready_fds returned p: ready!() returns Pending
\* to the caller, `?` returns the error, and on Ready(Ok) the loop goes round to
\* the match on r (the native call is before the loop, not in it)
PollReadyNext(p) ==
    CASE p = "Pending" -> "out"
      [] p = "ReadyErr" -> "done"
      [] p = "ReadyOk" -> "match"

\* ready!(self.operation.poll_ready_fds(cx))?
PollReady ==
    /\ pc = "ready"
    /\ readyCalls' = IF readyCalls < 2 THEN readyCalls + 1 ELSE readyCalls
    /\ \E p \in {"Pending", "ReadyOk", "ReadyErr"} :
          /\ lastReady' = p
          /\ pc' = PollReadyNext(p)
          /\ ret' = CASE pc' = "out" -> "Pending"
                      [] pc' = "done" -> "Ready"
                      [] OTHER -> ret
          /\ res' = IF pc' = "done" THEN <<"Runtime", "ready">> ELSE res
    /\ UNCHANGED <<parseVars, slotVars, ptrVars, taskVars, opVars, r, fresh, woken, schedVars, pauseAdd, pauseDel,
                   callAdd, callDel, diffReads, nRun, nTrack, nUntrack, polls,
                   recovered>>

\* the taken value dropped: Finished always reported as an operation failure
FinishResult_AlwaysOperation(e) == <<"Operation", e>>

\* mem::replace(&mut self.op_error, Ok(())) mapped into the future's result
FinishResult(e) == IF e = "Ok" THEN <<"Ok", "-">> ELSE <<"Operation", e>>

\* ffi::ASYNC_FINISH
MatchFinish ==
    /\ pc = "match"
    /\ r = ASYNC_FINISH
    /\ fresh' = FALSE
    /\ op_error' = "Ok"
    /\ nTakes' = nTakes + 1
    /\ nWrites' = nWrites
    /\ Resolve(FinishResult(op_error))
    /\ UNCHANGED <<parseVars, ptrVars, job, opVars, r, woken, schedVars, pauseVars, countVars, polls,
                   recovered>>

\* _ => unreachable!()
\* a reading of the last arm that treats an unknown status like a busy scheduler
MatchOtherNext_Pending == "out"

\* _ => unreachable!(): the poll panics
MatchOtherNext == "panicked"

MatchOther ==
    /\ pc = "match"
    /\ r \notin {ASYNC_ERR, ASYNC_NO_JOBS, ASYNC_PAUSE, ASYNC_FINISH}
    /\ fresh' = FALSE
    /\ pc' = MatchOtherNext
    /\ ret' = IF MatchOtherNext = "panicked" THEN ret ELSE "Pending"
    /\ UNCHANGED <<parseVars, slotVars, ptrVars, taskVars, opVars, r, res, woken, schedVars, pauseVars, countVars,
                   polls, recovered>>

poll_run ==
    \/ ASYNC_start_job
    \/ MatchErr
    \/ MatchNoJobs
    \/ MatchPauseDiffErr
    \/ MatchPauseTrackErr
    \/ MatchPause
    \/ PollReady
    \/ MatchFinish
    \/ MatchOther

\* ------------------------------------------------------- the caller's side
\* OpensslAsyncTask::into_op after the future resolved: the caller gets the
\* operation and reads its result (KeylessOpensslAsyncJob::run)
into_op ==
    /\ pc = "done"
    /\ pc' = "recovered"
    /\ recovered' = opResult
    /\ UNCHANGED <<parseVars, slotVars, ptrVars, taskVars, opVars, r, fresh, ret, res, woken, schedVars, pauseVars,
                   countVars, polls>>

\* The caller drops the task between polls or after it resolved.  The task has
\* no Drop impl: its fields are dropped, the raw job pointer is forgotten, no
\* method of the operation is called and nothing is released in the scheduler.
DropTask ==
    /\ pc \in {"out", "done"}
    /\ pc' = "dropped"
    /\ UNCHANGED <<parseVars, slotVars, ptrVars, taskVars, opVars, r, fresh, ret, res, woken, schedVars, pauseVars,
                   countVars, polls, recovered>>

\* The caller moves the task between polls.  The task is Unpin (T: Unpin and
\* its other fields are), so Pin::new(&mut task), as the keyless job polls it,
\* lets safe code move it after a poll and poll it again where it then is.
MoveTask ==
    /\ pc = "out"
    /\ \E a \in Addrs \ {addr} : addr' = a
    /\ UNCHANGED <<parseVars, slotVars, ranOn, startAddr, jobRet, pc, taskVars, opVars, r, fresh, ret, res,
                   woken, schedVars, pauseVars, countVars, polls, recovered>>

Next ==
    \/ Poll
    \/ poll_run
    \/ into_op
    \/ DropTask
    \/ MoveTask

Spec == Init /\ [][Next]_vars

\* The same program under its scheduling: a poll that has begun keeps running
\* (poll_run is straight-line code on the polling thread), and the executor
\* polls again a task that returned Pending and was woken.
FairSpec == Spec /\ WF_vars(poll_run) /\ WF_vars(Poll)

\* =====================================================================
\* Sha256Crypt::parse (g3-xcrypt)
\* =====================================================================
\* A &str is the sequence of its bytes, each a one-character string; lengths and
\* indices are in bytes, as str::len, memchr and slicing are.  An Option is a
\* sequence: <<>> for None, <<x>> for Some(x).
SALT_LEN_MAX == 16
ROUNDS_DEFAULT == 5000
ROUNDS_MIN == 1000
ROUNDS_MAX == 999999999
HASH_STR_LEN == 43

\* "rounds="
ROUNDS_PREFIX == <<"r", "o", "u", "n", "d", "s", "=">>

Digits == <<"0", "1", "2", "3", "4", "5", "6", "7", "8", "9">>
IsDigit(c) == \E i \in 1..10 : Digits[i] = c
DigitVal(c) == (CHOOSE i \in 1..10 : Digits[i] = c) - 1

\* usize::MAX of a 64-bit target, 18446744073709551615, as its decimal digits
USIZE_MAX_DIGITS == <<1, 8, 4, 4, 6, 7, 4, 4, 0, 7, 3, 7, 0, 9, 5, 5, 1, 6, 1, 5>>

\* &s[a..b] and &s[a..]
Slice(s, a, b) == SubSeq(s, a + 1, b)
SliceFrom(s, a) == SubSeq(s, a + 1, Len(s))

\* str::strip_prefix
strip_prefix(p, s) ==
    IF Len(s) >= Len(p) /\ SubSeq(s, 1, Len(p)) = p
    THEN <<SliceFrom(s, Len(p))>>
    ELSE <<>>

\* memchr::memchr: the index of the first byte b of s
memchr(b, s) ==
    IF \E i \in 1..Len(s) : s[i] = b
    THEN <<(CHOOSE i \in 1..Len(s) : s[i] = b /\ \A j \in 1..(i - 1) : s[j] # b) - 1>>
    ELSE <<>>

RECURSIVE StripZeros(_)
StripZeros(ds) ==
    IF ds # <<>> /\ ds[1] = "0" THEN StripZeros(Tail(ds)) ELSE ds

\* the digit string ds (no leading zero) is a number above usize::MAX
RECURSIVE DigitsAbove(_, _)
DigitsAbove(ds, m) ==
    IF ds = <<>> THEN FALSE
    ELSE IF DigitVal(ds[1]) # m[1] THEN DigitVal(ds[1]) > m[1]
    ELSE DigitsAbove(Tail(ds), Tail(m))

PosOverflow(ds) ==
    LET n == StripZeros(ds)
    IN \/ Len(n) > Len(USIZE_MAX_DIGITS)
       \/ Len(n) = Len(USIZE_MAX_DIGITS) /\ DigitsAbove(n, USIZE_MAX_DIGITS)

\* the value of a digit string; every value above ROUNDS_MAX is held as
\* ROUNDS_MAX + 1 (the numbers of the model are narrower than usize)
RECURSIVE DecValue(_)
DecValue(ds) ==
    IF ds = <<>> THEN 0
    ELSE LET hi == DecValue(SubSeq(ds, 1, Len(ds) - 1))
             d == DigitVal(ds[Len(ds)])
         IN IF hi > (ROUNDS_MAX - d) \div 10 THEN ROUNDS_MAX + 1 ELSE hi * 10 + d

\* usize::from_str: an optional '+', then one or more digits, no overflow
usize_from_str(s) ==
    LET ds == IF s # <<>> /\ s[1] = "+" THEN Tail(s) ELSE s
    IN IF ds = <<>> \/ (\E i \in 1..Len(ds) : ~IsDigit(ds[i])) \/ PosOverflow(ds)
       THEN <<>>
       ELSE <<DecValue(ds)>>

\* the range test of the rounds: the condition under which parse returns
\* OutOfRangeRounds
RoundsRejected(rounds) == ROUNDS_MIN <= rounds /\ rounds <= ROUNDS_MAX

\* a salt one byte shorter already refused
SaltTooLong_AtMax(d) == d >= SALT_LEN_MAX

\* d > SALT_LEN_MAX
SaltTooLong(d) == d > SALT_LEN_MAX

\* d + 1 + HASH_STR_LEN != s.len()
InvalidHashSize(d, len) == d + 1 + HASH_STR_LEN # len

\* the part of parse after the rounds prefix: salt '$' hash
parse_salt_hash(rounds, s) ==
    LET m == memchr("$", s)
    IN IF m = <<>> THEN ParseErr("NoSaltFound")
       ELSE LET d == m[1]
            IN IF d = 0 THEN ParseErr("NoSaltFound")
               ELSE IF SaltTooLong(d) THEN ParseErr("SaltTooLong")
               ELSE IF InvalidHashSize(d, Len(s)) THEN ParseErr("InvalidHashSize")
               ELSE ParseOk(rounds, Slice(s, 0, d), SliceFrom(s, d + 1))

\* Sha256Crypt::parse
parse(v) ==
    LET p == strip_prefix(ROUNDS_PREFIX, v)
    IN IF p = <<>> THEN parse_salt_hash(ROUNDS_DEFAULT, v)
       ELSE LET rest == p[1]
                m == memchr("$", rest)
            IN IF m = <<>> THEN ParseErr("InvalidRounds")
               ELSE LET d == m[1]
                        n == usize_from_str(Slice(rest, 0, d))
                    IN IF d = 0 THEN ParseErr("InvalidRounds")
                       ELSE IF n = <<>> THEN ParseErr("InvalidRounds")
                       ELSE IF RoundsRejected(n[1]) THEN ParseErr("OutOfRangeRounds")
                       ELSE parse_salt_hash(n[1], SliceFrom(rest, d + 1))

\* ------------------------------------------------------- the inputs parsed
Rep(c, n) == [i \in 1..n |-> c]

\* what stands between "rounds=" and the '$' in the inputs
RoundsTexts ==
    {<<"9", "9", "9">>,
     <<"1", "0", "0", "0">>,
     <<"5", "0", "0", "0">>,
     <<"9", "9", "9", "9", "9", "9", "9", "9", "9">>,
     <<"1", "0", "0", "0", "0", "0", "0", "0", "0", "0">>,
     <<"0">>,
     <<"+", "5", "0", "0", "0">>,
     <<"0", "5", "0", "0", "0">>,
     <<>>,
     <<"1", "x">>,
     <<"-", "1">>,
     <<"+">>,
     <<"1", "8", "4", "4", "6", "7", "4", "4", "0", "7", "3", "7", "0", "9", "5", "5", "1", "6", "1", "5">>,
     <<"1", "8", "4", "4", "6", "7", "4", "4", "0", "7", "3", "7", "0", "9", "5", "5", "1", "6", "1", "6">>}

RoundsPrefixes ==
    {<<>>} \cup {ROUNDS_PREFIX \o t \o <<"$">> : t \in RoundsTexts}
           \cup {ROUNDS_PREFIX \o t : t \in RoundsTexts}

Salts == {Rep("a", n) : n \in 0..MaxSaltLen}

Hashes ==
    {Rep("h", n) : n \in {0} \cup ((HASH_STR_LEN - HashSlack)..(HASH_STR_LEN + HashSlack))}
        \cup {<<"h", "$">> \o Rep("h", HASH_STR_LEN - 2)}

SaltHashTexts ==
    {s \o <<"$">> \o h : s \in Salts, h \in Hashes} \cup {Rep("a", n) : n \in 0..2}

ParseInputs == {p \o b : p \in RoundsPrefixes, b \in SaltHashTexts}

\* a caller has a string to parse
ParseInit ==
    /\ TaskInit
    /\ parseArg \in ParseInputs
    /\ parseRet = NotParsed

\* the caller calls Sha256Crypt::parse on it
ParseCall ==
    /\ parseRet = NotParsed
    /\ parseRet' = parse(parseArg)
    /\ UNCHANGED <<parseArg, slotVars, ptrVars, pc, taskVars, opVars, r, fresh, ret, res,
                   woken, schedVars, pauseVars, countVars, polls, recovered>>

ParseNext == ParseCall

ParseSpec == ParseInit /\ [][ParseNext]_vars

\* =====================================================================
\* Properties
\* =====================================================================
Resolved == ret = "Ready"

\* C1: when run() returns Ok and the native call reported Finished, the future
\* resolved to Ok(()) and the operation into_op() returns holds the state run()
\* produced (its result is the length of the input).
C1_RunOkStateRecovered ==
    (pc = "recovered" /\ opRun = "Ok" /\ r = ASYNC_FINISH)
        => (res = <<"Ok", "-">> /\ recovered = run(0, opInput, "Ok"))

\* C2: when run() returns Err(e) and the scheduler reported Finished (no Error,
\* no registration failure), the future resolved to Operation(e).
C2_RunErrIsOperation ==
    (Resolved /\ opRun \in OpErrors /\ r = ASYNC_FINISH)
        => res = <<"Operation", opRun>>

\* C3: after the task was dropped with a non-null job handle, the native job is
\* released, no fd is left tracked and untrack was called as often as track.
C3_DropWhilePausedTearsDown ==
    (pc = "dropped" /\ job # NULL)
        => (jobState # "paused" /\ tracked = {} /\ nUntrack = nTrack)

\* C4: at the readiness check of every pause the fds the operation has tracked
\* are exactly the fds the wait context holds for the paused job.
C4_TrackedIsWaitSet == pc = "ready" => tracked = waitFds

\* the second pause of the scenario: {3,5} added, then 3 removed and 7 added
C4_Witness ==
    /\ pc = "ready"
    /\ pauses = 2
    /\ pauseAdd = {7}
    /\ pauseDel = {3}
    /\ tracked = {5, 7}

\* C5: when poll_ready_fds reports Ready(Ok) for a pause, the next step of the
\* same poll is another native start/resume call.
C5_ReadyResumesInSamePoll ==
    [][(pc = "ready" /\ lastReady' = "ReadyOk") => pc' = "call"]_vars

\* C6: a poll whose native call returned No-slot returns Pending and does not
\* resolve the future; a resolved future was polled at least once more than
\* No-slot was returned; exhaustion is never the future's result.
C6_NoSlotIsAbsorbed ==
    /\ r = ASYNC_NO_JOBS => (~Resolved /\ res = NoRes /\ pc \notin {"done", "panicked"})
    /\ (r = ASYNC_NO_JOBS /\ pc \in {"out", "dropped"}) => ret = "Pending"
    /\ Resolved => polls >= noSlots + 1
    /\ res[1] \in {"-", "Ok", "Openssl", "Runtime", "Operation"}
    /\ res[2] # "nojobs"

\* two polls met No-slot, the third drove the job to Finished
C6_Witness ==
    /\ Resolved
    /\ noSlots = 2
    /\ polls = 3
    /\ r = ASYNC_FINISH

\* C7: when the first native call of the task returns Error, that poll resolves
\* the future with the Openssl variant, and run(), track_raw_fd, untrack_raw_fd
\* and poll_ready_fds have not been called.
C7_ErrOnFirstStart ==
    (r = ASYNC_ERR /\ polls = 1)
        => /\ nRun = 0 /\ nTrack = 0 /\ nUntrack = 0 /\ lastReady = "-"
           /\ pc # "match" => (Resolved /\ res[1] = "Openssl")

C7_Witness ==
    /\ pc = "done"
    /\ polls = 1
    /\ r = ASYNC_ERR
    /\ lastCall = <<"start", NULL>>
    /\ res = <<"Openssl", "sched">>

\* C8: when poll_ready_fds is called for a pause, the fds passed to track_raw_fd
\* and untrack_raw_fd since that pause are exactly the fds the job added and
\* removed at that pause; track and untrack calls are made only while
\* poll_ready_fds has not been called for the pause.
C8_ReconcileBeforeReady ==
    /\ [](pc = "ready" => (callAdd = pauseAdd /\ callDel = pauseDel))
    /\ [][(nTrack' # nTrack \/ nUntrack' # nUntrack)
             => (readyCalls = 0 /\ readyCalls' = 0)]_vars

\* a third pause with both a track and an untrack call, before its readiness check
C8_Witness ==
    /\ pc = "ready"
    /\ pauses = 3
    /\ readyCalls = 0
    /\ callAdd = {3, 5}
    /\ callDel = {7}
    /\ tracked = {3, 5}

\* C9: when poll_ready_fds reports Pending for a pause, the poll returns Pending
\* with the future unresolved and the job handle and the error slot unchanged;
\* the native call of the next poll is a resume of that same job.
C9_PendingKeepsJob ==
    /\ [][(pc = "ready" /\ lastReady' = "Pending")
             => /\ pc' = "out" /\ ret' = "Pending" /\ res' = NoRes
                /\ job # NULL /\ job' = job /\ op_error' = op_error]_vars
    /\ [][(pc = "call" /\ r = ASYNC_PAUSE /\ lastReady = "Pending" /\ pc' # "call")
             => (job # NULL /\ jobState = "paused" /\ lastCall' = <<"resume", job>>)]_vars

\* the poll after a Pending pause has resumed the job, which finished
C9_Witness ==
    /\ pc = "match"
    /\ polls = 2
    /\ lastReady = "Pending"
    /\ lastCall = <<"resume", 1>>
    /\ r = ASYNC_FINISH

\* C10: when the future resolved because reading the diff or track_raw_fd
\* failed, the result is the Openssl or Runtime variant and poll_ready_fds has
\* not been called for that pause.
C10_RegistrationFailure ==
    (Resolved /\ res[2] \in {"waitctx", "track"})
        => (res[1] \in {"Openssl", "Runtime"} /\ readyCalls = 0)

\* C11: once a native call has returned Error, the future resolves with the
\* scheduling fault in that poll, and from then on no poll begins, no native
\* call is issued and run() is not called.
C11_FaultIsTerminal ==
    /\ [](r = ASYNC_ERR /\ pc # "match" => (Resolved /\ res = <<"Openssl", "sched">>))
    /\ [][r = ASYNC_ERR
             => /\ pc' \notin {"call", "out"}
                /\ polls' = polls /\ lastCall' = lastCall /\ r' = r
                /\ nRun' = nRun /\ jobState' = jobState]_vars

\* a resume failed in the second poll, the future resolved and was dropped
C11_Witness ==
    /\ pc = "dropped"
    /\ r = ASYNC_ERR
    /\ polls = 2
    /\ lastCall = <<"resume", 1>>
    /\ res = <<"Openssl", "sched">>

\* C12: a poll that returned Pending either met No-slot and woke its own waker,
\* or met Paused and returns the Pending poll_ready_fds gave it.
C12_PendingHasWake ==
    (pc = "out" /\ ret = "Pending")
        => \/ (r = ASYNC_NO_JOBS /\ woken)
           \/ (r = ASYNC_PAUSE /\ lastReady = "Pending" /\ readyCalls >= 1)

\* a No-slot poll that returned Pending after a wake
C12_Witness ==
    /\ pc = "out"
    /\ ret = "Pending"
    /\ r = ASYNC_NO_JOBS
    /\ woken
    /\ polls = 2

\* C13: get_changed_fds is called exactly once for each pause: never twice, and
\* once by the time the next native call is made for the paused job.
C13_OneDiffReadPerPause ==
    /\ diffReads <= 1
    /\ (pc = "call" /\ r = ASYNC_PAUSE) => diffReads = 1

\* C14: the error slot holds success before the first poll; run() is called at
\* most once, the trampoline stores into the slot at most once and the slot is
\* taken at most once; when the native call has reported Finished the slot has
\* been written exactly once, and when the future resolved on Finished it has
\* been taken exactly once.
C14_SlotWrittenOnceTakenOnce ==
    /\ polls = 0 => op_error = "Ok"
    /\ nRun <= 1 /\ nWrites <= 1 /\ nTakes <= 1
    /\ (r = ASYNC_FINISH /\ pc # "call") => (nRun = 1 /\ nWrites = 1)
    /\ (r = ASYNC_FINISH /\ Resolved) => nTakes = 1

\* C15: the poll that matches Finished takes the error slot, leaving success in
\* it, finds the job handle null and resolves the future with the taken value;
\* the handle is null whenever no job was started yet or the job finished, and
\* the scheduler hands the task at most one job handle.
C15_FinishTakesSlot ==
    /\ [][(pc = "match" /\ r = ASYNC_FINISH)
             => /\ op_error' = "Ok"
                /\ job = NULL /\ job' = NULL
                /\ pc' = "done" /\ ret' = "Ready"
                /\ res' = IF op_error = "Ok" THEN <<"Ok", "-">>
                                             ELSE <<"Operation", op_error>>]_vars
    /\ [](jobState \in {"none", "finished"} => job = NULL)
    /\ [](job \in {NULL, 1} /\ nextJob <= 2)

\* the job paused once, then finished, and the future resolved with the slot
C15_Witness ==
    /\ pc = "done"
    /\ r = ASYNC_FINISH
    /\ pauses = 1
    /\ jobState = "finished"
    /\ job = NULL
    /\ nTakes = 1
    /\ op_error = "Ok"
    /\ res = <<"Ok", "-">>

\* C16: whenever the future has resolved, with whatever result, the job handle
\* is null, no native job is left paused and the operation tracks no fd.
C16_ReleasedOnEveryExit ==
    Resolved => (job = NULL /\ jobState # "paused" /\ tracked = {})

\* C17: the steps of a poll whose native call returns No-slot (the call and the
\* match arm) call none of run(), track_raw_fd, untrack_raw_fd, poll_ready_fds
\* and get_changed_fds, and leave the error slot, the tracked fds and the
\* operation's state as they were.
C17_NoSlotFrame ==
    [][(\/ (pc = "call" /\ pc' = "match" /\ r' = ASYNC_NO_JOBS)
        \/ (pc = "match" /\ r = ASYNC_NO_JOBS))
          => /\ nRun' = nRun /\ nTrack' = nTrack /\ nUntrack' = nUntrack
             /\ readyCalls' = readyCalls /\ lastReady' = lastReady
             /\ diffReads' = diffReads
             /\ op_error' = op_error /\ nWrites' = nWrites /\ nTakes' = nTakes
             /\ tracked' = tracked
             /\ opResult' = opResult /\ opInput' = opInput /\ opRun' = opRun]_vars

\* two No-slot polls have returned and nothing of the operation was touched
C17_Witness ==
    /\ pc = "out"
    /\ r = ASYNC_NO_JOBS
    /\ noSlots = 2
    /\ ret = "Pending"
    /\ nRun = 0
    /\ tracked = {}

\* C18: what the trampoline uses as the task is the polled task itself, so that
\* when the future resolves on Finished its result is the result of run(),
\* written into the task's error slot and read back from it.
C18_TrampolineGetsTheTask ==
    /\ nRun > 0 => ranOn = "task"
    /\ (r = ASYNC_FINISH /\ Resolved)
          => res = IF opRun = "Ok" THEN <<"Ok", "-">> ELSE <<"Operation", opRun>>

\* C19: at every poll made while the job handle is non-null, the task is at the
\* address it was at when the job was started.
C19_TaskNotRelocated ==
    (pc \in {"call", "match", "ready"} /\ job # NULL) => addr = startAddr

\* C20: a status other than Error, No-slot, Paused or Finished makes the poll
\* panic: it returns neither Pending nor a value, and makes no track, untrack
\* or poll_ready call.
C20_OtherStatusIsFatal ==
    /\ [][(pc = "match" /\ r \notin {ASYNC_ERR, ASYNC_NO_JOBS, ASYNC_PAUSE, ASYNC_FINISH})
            => /\ pc' = "panicked"
               /\ ret' = "None" /\ res' = NoRes
               /\ nTrack' = nTrack /\ nUntrack' = nUntrack
               /\ tracked' = tracked
               /\ readyCalls' = readyCalls /\ lastReady' = lastReady]_vars
    /\ [](pc = "panicked" => (r = ASYNC_OTHER /\ ret = "None" /\ res = NoRes))
    /\ [][pc = "panicked" => pc' \in {"panicked", "dropped"}]_vars

\* a second poll, after a Pending one, panicked on an unknown status
C20_Witness ==
    /\ pc = "panicked"
    /\ r = ASYNC_OTHER
    /\ polls >= 2
    /\ ret = "None"

InPoll == pc \in {"call", "match", "ready"}

\* C21: every poll terminates: once begun, it returns (Pending or Ready) or
\* panics after finitely many steps, whatever the native call and poll_ready
\* answer.
C21_PollTerminates == InPoll ~> ~InPoll

\* what the fairness claim assumes away: the caller dropped the task, the
\* scheduler or the reactor reported a fault, the process crashed, or the
\* executor's polls (bounded here) ran out
C22_Excused ==
    \/ pc \in {"dropped", "aborted", "panicked"}
    \/ r \in {ASYNC_ERR, ASYNC_OTHER}
    \/ res[1] \in {"Openssl", "Runtime"}
    \/ (pc = "out" /\ polls = MaxPolls)

\* C22: with finitely many No-slot answers and pauses, fds that become ready
\* and an executor that re-polls, the future eventually returns Ready with the
\* job driven to Finished.
C22_EventuallyResolves ==
    <>((Resolved /\ jobState = "finished") \/ C22_Excused)

\* the number N of a "rounds=N$" prefix of the parsed string: <<>> when there
\* is no '$' after "rounds=" or what stands before it is not a number
C23_Number ==
    LET p == strip_prefix(ROUNDS_PREFIX, parseArg)
        m == memchr("$", p[1])
    IN IF m = <<>> THEN <<>> ELSE usize_from_str(Slice(p[1], 0, m[1]))

\* C23: parse accepts a "rounds=N$" prefix exactly when ROUNDS_MIN <= N <=
\* ROUNDS_MAX and then stores N; N outside the range gives OutOfRangeRounds, a
\* missing or malformed N or a missing '$' gives InvalidRounds, and without the
\* prefix the rounds are 5000.
C23_RoundsPrefix ==
    parseRet # NotParsed =>
        IF strip_prefix(ROUNDS_PREFIX, parseArg) = <<>>
        THEN /\ parseRet.err \notin {"InvalidRounds", "OutOfRangeRounds"}
             /\ parseRet.tag = "Ok" => parseRet.rounds = 5000
        ELSE IF C23_Number = <<>>
        THEN parseRet = ParseErr("InvalidRounds")
        ELSE IF C23_Number[1] < 1000 \/ C23_Number[1] > 999999999
        THEN parseRet = ParseErr("OutOfRangeRounds")
        ELSE /\ parseRet.err \notin {"InvalidRounds", "OutOfRangeRounds"}
             /\ parseRet.tag = "Ok" => parseRet.rounds = C23_Number[1]

\* the parsed string after its rounds prefix, if it has one
C24_Rest ==
    LET p == strip_prefix(ROUNDS_PREFIX, parseArg)
    IN IF p = <<>> \/ memchr("$", p[1]) = <<>>
       THEN parseArg
       ELSE SliceFrom(p[1], memchr("$", p[1])[1] + 1)

\* C24: past the rounds prefix, parse returns Ok exactly for salt '$' hash with
\* a salt of 1 to 16 bytes and a hash of 43 bytes, and stores those two
\* substrings; no '$' or an empty salt gives NoSaltFound, a salt of more than
\* 16 bytes SaltTooLong, a hash of another length InvalidHashSize.
C24_SaltAndHash ==
    (parseRet # NotParsed /\ parseRet.err \notin {"InvalidRounds", "OutOfRangeRounds"}) =>
        LET s == C24_Rest
            hasSep == \E i \in 1..Len(s) : s[i] = "$"
            saltLen == Cardinality({i \in 1..Len(s) : \A j \in 1..i : s[j] # "$"})
            hashLen == Len(s) - saltLen - 1
        IN /\ parseRet.tag = "Ok" <=> (hasSep /\ saltLen \in 1..16 /\ hashLen = 43)
           /\ parseRet.tag = "Ok" =>
                 /\ parseRet.salt = SubSeq(s, 1, saltLen)
                 /\ parseRet.hash = SubSeq(s, saltLen + 2, Len(s))
                 /\ s = parseRet.salt \o <<"$">> \o parseRet.hash
           /\ (~hasSep \/ saltLen = 0) => parseRet = ParseErr("NoSaltFound")
           /\ (hasSep /\ saltLen > 16) => parseRet = ParseErr("SaltTooLong")
           /\ (hasSep /\ saltLen \in 1..16 /\ hashLen # 43)
                 => parseRet = ParseErr("InvalidHashSize")

\* a string without a rounds prefix, with the longest salt allowed and a hash
\* that itself holds a '$', was parsed
C24_Witness ==
    /\ parseRet.tag = "Ok"
    /\ strip_prefix(ROUNDS_PREFIX, parseArg) = <<>>
    /\ Len(parseRet.salt) = SALT_LEN_MAX
    /\ Len(parseRet.hash) = HASH_STR_LEN
    /\ \E i \in 1..Len(parseRet.hash) : parseRet.hash[i] = "$"

\* C25: the trampoline returns the same status 0 whether run() succeeded or
\* failed, and a failure of the operation leaves the native call reporting
\* Finished, the future resolving to Ok or an operation failure.
C25_TrampolineStatusFixed ==
    /\ jobRet \in {<<>>, <<0>>}
    /\ jobState = "finished" => (jobRet = <<0>> /\ r = ASYNC_FINISH)
    /\ (r = ASYNC_FINISH /\ Resolved) => res[1] \in {"Ok", "Operation"}

\* the operation's run() fails, the job finished and the future resolved
C25_Witness ==
    /\ opRun # "Ok"
    /\ jobState = "finished"
    /\ jobRet = <<0>>
    /\ r = ASYNC_FINISH
    /\ Resolved
====
